---- MODULE Spec2Model ----
(***************************************************************************)
(* State-machine model of three plugin modules of the window manager:      *)
(*   - the vertical stacking layout   (awful.layout.suit.xterm, do_xterm)  *)
(*   - the notification popup manager (lib/naughty/core.lua.in)            *)
(*   - the keyboard layout bridge     (xkb.c)                              *)
(* Lua tables that the code uses as arrays are sequences; a notification   *)
(* object is a record in the heap `objs`, named by its handle (its index   *)
(* in the heap), so that two notifications with equal fields are still two *)
(* objects, as in Lua.                                                     *)
(***************************************************************************)
EXTENDS Integers, Sequences, FiniteSets, TLC

VARIABLES
    p,              \* layout: the parameter table handed to xterm.arrange
    counter,        \* naughty: local counter              (core.lua.in:119)
    suspended,      \* naughty: local suspended            (core.lua.in:122)
    notifications,  \* naughty.notifications[1][position]  (core.lua.in:136)
    suspendedList,  \* naughty.notifications.suspended     (core.lua.in:134)
    objs,           \* heap of notification objects: box, timer, fields
    last,           \* the call the host made last, and what it returned
    timerCalls,     \* how many mouse::enter, reset_timeout and replace_text
                    \* calls were made
    xkb             \* the keyboard layout bridge (xkb.c)

vars == <<p, counter, suspended, notifications, suspendedList, objs, last, timerCalls,
          xkb>>

(***************************************************************************)
(* Bounds of the model.                                                    *)
(***************************************************************************)
MaxClients == 4     \* clients handed to the layout
MaxWaHeight == 7    \* work-area heights 1..MaxWaHeight for the layout
MaxWaOrigin == 1    \* work-area x and y origins 0..MaxWaOrigin for the layout
MaxCalls == 2       \* notify, mouse::enter, reset_timeout and replace_text
                    \* calls in one run
WaX == 2            \* work area of screen 1, seen by naughty
WaY == 1
WaW == 30
WaH == 12

Nil == -2           \* Lua nil, for numbers and handles that may be absent

(***************************************************************************)
(* The stacking layout.                                                    *)
(***************************************************************************)
\* math.ceil(a / b) on Lua numbers holding integers, b > 0
Ceil(a, b) == -((-a) \div b)

Range(s) == {s[i] : i \in DOMAIN s}

\* table with no entries
EmptyTable == [c \in {} |-> Nil]

\* do_xterm with the row height rounded down instead of up
do_xterm_floor(pp) ==
    LET wa == pp.workarea
        cls == pp.clients
    IN  IF Len(cls) > 0
        THEN LET height == wa.height \div Len(cls)
             IN  [c \in DOMAIN pp.geometries \cup Range(cls) |->
                    IF c \in Range(cls)
                    THEN [height |-> height,
                          width |-> wa.width,
                          y |-> height * ((CHOOSE k \in DOMAIN cls : cls[k] = c) - 1)
                                + wa.y,
                          x |-> 0 + wa.x]
                    ELSE pp.geometries[c]]
        ELSE pp.geometries

\* do_xterm with rows one unit higher than ceil(height / rows)
do_xterm_higher(pp) ==
    LET wa == pp.workarea
        cls == pp.clients
    IN  IF Len(cls) > 0
        THEN LET height == Ceil(wa.height, Len(cls)) + 1
             IN  [c \in DOMAIN pp.geometries \cup Range(cls) |->
                    IF c \in Range(cls)
                    THEN [height |-> height,
                          width |-> wa.width,
                          y |-> height * ((CHOOSE k \in DOMAIN cls : cls[k] = c) - 1)
                                + wa.y,
                          x |-> 0 + wa.x]
                    ELSE pp.geometries[c]]
        ELSE pp.geometries

\* p.geometries after do_xterm(p)
do_xterm(pp) ==
    LET wa == pp.workarea
        cls == pp.clients
    IN  IF Len(cls) > 0
        THEN LET rows == Len(cls)
                 height == Ceil(wa.height, rows)
                 g(k) == [height |-> height,
                          width |-> wa.width,
                          y |-> height * (k - 1) + wa.y,
                          x |-> 0 + wa.x]
                 set == [c \in Range(cls) |->
                            g(CHOOSE k \in DOMAIN cls :
                                  /\ cls[k] = c
                                  /\ \A j \in DOMAIN cls : cls[j] = c => j <= k)]
             IN  [c \in DOMAIN pp.geometries \cup Range(cls) |->
                    IF c \in Range(cls) THEN set[c] ELSE pp.geometries[c]]
        ELSE pp.geometries

Clients == 1..MaxClients

\* ordered client lists: the host hands each client once
ClientLists ==
    UNION {{s \in [1..n -> Clients] : \A i, j \in 1..n : i # j => s[i] # s[j]}
           : n \in 0..MaxClients}

WorkAreas ==
    [x : 0..MaxWaOrigin, y : 0..MaxWaOrigin, width : {5}, height : 1..MaxWaHeight]

LayoutParams ==
    [workarea : WorkAreas, clients : ClientLists, geometries : {EmptyTable}]

\* xterm.arrange(p)
Arrange ==
    /\ p' = [p EXCEPT !.geometries = do_xterm(p)]
    /\ last' = [op |-> "arrange", obj |-> Nil, arg |-> Nil, ret |-> FALSE,
                err |-> FALSE]
    /\ UNCHANGED <<counter, suspended, notifications, suspendedList, objs,
                   timerCalls, xkb>>


(***************************************************************************)
(* The notification popup manager.                                         *)
(***************************************************************************)
padding == 4        \* naughty.config.padding
spacing == 1        \* naughty.config.spacing

\* naughty.notificationClosedReason; Nil is a call without a reason
silent == -1
expired == 1
dismissedByUser == 2
dismissedByCommand == 3
undefined == 4

NilS == "nil"       \* Lua nil, where a string or a boolean may be absent

\* naughty.config.defaults: a number in a string is a number in arithmetic
default_timeout == 5
default_border_width == 1
default_position == "top_right"
default_ontop == "true"
default_text == ""

defaults ==
    [timeout |-> default_timeout, text |-> default_text, title |-> NilS,
     ontop |-> default_ontop, border_width |-> default_border_width,
     position |-> default_position, hover_timeout |-> Nil]

\* naughty.config.presets: the fields of each preset that notify merges
presets ==
    [low |-> [timeout |-> 5], normal |-> [timeout |-> Nil],
     critical |-> [timeout |-> 0]]

\* The keys of naughty.notifications[1], in the order in which pairs() visits
\* them (Lua leaves that order open; the model fixes one).
Positions ==
    <<"top_right", "bottom_left", "top_left", "top_middle", "bottom_middle",
      "bottom_right">>
PositionSet == Range(Positions)

\* position:match("top"), position:match("left"), position:match("middle")
IsTop(position) == position \in {"top_left", "top_middle", "top_right"}
IsLeft(position) == position \in {"top_left", "bottom_left"}
IsMiddle(position) == position \in {"top_middle", "bottom_middle"}

\* Lua's `a or b` on a number that may be nil (every number is true)
Or(a, b) == IF a = Nil THEN b ELSE a

\* Lua's `a or b` on a string or boolean that may be nil: nil and false
\* give b
LuaOr(a, b) == IF a \in {NilS, "false"} THEN b ELSE a

\* util.table.join(naughty.config.defaults, t): the keys of t override
table_join(d, t) == [d EXCEPT !.timeout = Or(t.timeout, @)]

(***************************************************************************)
(* gears.timer, the host's timer object.  A timer that was never installed *)
(* is NoTimer.  origin names the place that created the timer object.      *)
(***************************************************************************)
NoTimer == [exists |-> FALSE, timeout |-> 0, started |-> FALSE, left |-> 0,
            origin |-> "none"]

\* timer { timeout = t }
TimerNew(t, origin) ==
    [exists |-> TRUE, timeout |-> t, started |-> FALSE, left |-> 0,
     origin |-> origin]

\* timer:start(): a timer that already runs keeps running
TimerStart(tm) ==
    IF tm.started THEN tm ELSE [tm EXCEPT !.started = TRUE, !.left = tm.timeout]

\* timer:stop()
TimerStop(tm) == [tm EXCEPT !.started = FALSE, !.left = 0]

(***************************************************************************)
(* The world the handlers read and write, as one record:                   *)
(*   objs, lists (naughty.notifications[1]), susp, suspended, and err,     *)
(*   which is TRUE once a Lua error was raised in the running handler      *)
(*   (the rest of the handler is then skipped).                            *)
(***************************************************************************)
World ==
    [objs |-> objs, lists |-> notifications, susp |-> suspendedList,
     suspended |-> suspended, err |-> FALSE]

\* table.remove(t, pos): a position outside 1..#t removes nothing
TableRemove(t, pos) ==
    IF pos \in 1..Len(t)
    THEN SubSeq(t, 1, pos - 1) \o SubSeq(t, pos + 1, Len(t))
    ELSE t

\* lines 195-198: the heights, with spacing, of the first n entries of list
RECURSIVE Existing(_, _, _)
Existing(o, list, n) ==
    IF n = 0 THEN 0
    ELSE Existing(o, list, n - 1) + o[list[n]].height + spacing

\* lines 185-192: twice v.x (Lua's number division keeps the half)
OffsetX2(position, width) ==
    IF IsLeft(position) THEN 2 * (WaX + padding)
    ELSE IF IsMiddle(position) THEN WaW - width
    ELSE 2 * (WaX + WaW - (width + padding))

\* lines 200-205: v.y
OffsetY(position, height, existing) ==
    IF IsTop(position) THEN WaY + padding + existing
    ELSE WaY + WaH - (padding + height + existing)

\* line 208: positioned outside the work area
Outside(y, height) == y + height > WaY + WaH \/ y < WaY

NoOffset == [x2 |-> 0, y |-> 0, idx |-> 0]

\* the index of the first entry of the suspended list whose box is o's, or 0
RECURSIVE FindBox(_, _, _)
FindBox(susp, o, k) ==
    IF k > Len(susp) THEN 0
    ELSE IF susp[k] = o THEN k
    ELSE FindBox(susp, o, k + 1)

\* what the destroy callback of o sees when it is called
Snapshot(W, o, reason) ==
    [reason |-> reason,
     inList |-> \E q \in PositionSet : o \in Range(W.lists[q]),
     inSusp |-> o \in Range(W.susp),
     visible |-> W.objs[o].visible,
     timerStarted |-> W.objs[o].timer.started,
     arranged |-> \A q \in PositionSet : \A i \in DOMAIN W.lists[q] :
                    LET n == W.objs[W.lists[q][i]]
                    IN  /\ n.idx = i
                        /\ n.y = OffsetY(q, n.height,
                                         Existing(W.objs, W.lists[q], i - 1))]

RECURSIVE get_offset(_, _, _, _, _)
RECURSIVE arrange_list(_, _, _)
RECURSIVE arrange_from(_, _)
RECURSIVE destroy(_, _, _)

\* get_offset(screen, position, idx, width, height): [w, v]
get_offset(W, position, idx, width, height) ==
    IF W.err THEN [w |-> W, v |-> NoOffset]
    ELSE
    LET list == W.lists[position]
    IN  IF idx - 1 > Len(list)
        THEN \* line 197 indexes an entry that is not there
             [w |-> [W EXCEPT !.err = TRUE], v |-> NoOffset]
        ELSE
        LET existing == Existing(W.objs, list, idx - 1)
            y == OffsetY(position, height, existing)
        IN  IF Outside(y, height)
            THEN IF idx <= 1
                 THEN \* nothing is left to evict: the recursion never ends
                      \* and Lua raises a stack overflow
                      [w |-> [W EXCEPT !.err = TRUE], v |-> NoOffset]
                 ELSE LET first == IF Len(list) >= 1 THEN list[1] ELSE Nil
                          d == destroy(W, first, Nil)
                      IN  get_offset(d.w, position, idx - 1, width, height)
            ELSE [w |-> W,
                  v |-> [x2 |-> OffsetX2(position, width), y |-> y, idx |-> idx]]

\* the inner loop of arrange over naughty.notifications[screen][pos], from key i on
arrange_list(W, pos, i) ==
    IF W.err \/ i > Len(W.lists[pos]) THEN W
    ELSE
    LET o == W.lists[pos][i]
        g == get_offset(W, pos, i, W.objs[o].width, W.objs[o].height)
    IN  IF g.w.err THEN g.w
        ELSE arrange_list(
                [g.w EXCEPT !.objs[o].x2 = g.v.x2,
                            !.objs[o].y = g.v.y,
                            !.objs[o].idx = g.v.idx],
                pos, i + 1)

\* the outer loop of arrange, from the k-th position on
arrange_from(W, k) ==
    IF W.err \/ k > Len(Positions) THEN W
    ELSE arrange_from(arrange_list(W, Positions[k], 1), k + 1)

\* arrange(screen)
arrange(W) == arrange_from(W, 1)

\* lines 253-256 of naughty.destroy, W the world after arrange(scr)
destroy_finish(W, o, reason) ==
    IF W.err THEN [w |-> W, ret |-> FALSE]
    ELSE IF W.objs[o].destroy_cb /\ reason # silent
    THEN [w |-> [W EXCEPT !.objs[o].closed =
                    Append(@, Snapshot(W, o, Or(reason, undefined)))],
          ret |-> TRUE]
    ELSE [w |-> W, ret |-> TRUE]

\* lines 238-251 of naughty.destroy: the world before arrange(scr)
destroy_remove(W, o, k) ==
    [W EXCEPT !.susp = IF W.suspended /\ k > 0 THEN TableRemove(@, k) ELSE @,
              !.lists[W.objs[o].position] = TableRemove(@, W.objs[o].idx),
              !.objs[o].timer = IF @.exists THEN TimerStop(@) ELSE @,
              !.objs[o].visible = FALSE]

\* naughty.destroy(notification, reason): [w, ret]
destroy(W, o, reason) ==
    IF W.err \/ o = Nil \/ ~W.objs[o].visible
    THEN [w |-> W, ret |-> FALSE]
    ELSE destroy_finish(arrange(destroy_remove(W, o, FindBox(W.susp, o, 1))),
                        o, reason)

\* naughty.getById(id): the first notification with that id, lists visited in
\* the order of Positions, or Nil
RECURSIVE getById_from(_, _, _, _)
getById_from(W, id, k, i) ==
    IF k > Len(Positions) THEN Nil
    ELSE IF i > Len(W.lists[Positions[k]]) THEN getById_from(W, id, k + 1, 1)
    ELSE IF W.objs[W.lists[Positions[k]][i]].id = id THEN W.lists[Positions[k]][i]
    ELSE getById_from(W, id, k, i + 1)

getById(W, id) == getById_from(W, id, 1, 1)

\* set_timeout that starts the timer without looking at `suspended`
set_timeout_started(n, timeout, isSuspended, origin) ==
    IF timeout > 0 THEN TimerStart(TimerNew(timeout, origin)) ELSE n.timer

\* set_timeout(notification, timeout): the notification's timer field afterwards
set_timeout(n, timeout, isSuspended, origin) ==
    IF timeout > 0
    THEN IF ~isSuspended
         THEN TimerStart(TimerNew(timeout, origin))
         ELSE TimerNew(timeout, origin)
    ELSE n.timer

\* the crop with the border left out of the bound
Crop_without_border(size, workarea_size, border_width) ==
    IF size > workarea_size - 2 * padding
    THEN workarea_size - 2 * padding
    ELSE size

\* lines 620-627: crop to workarea size if too big
Crop(size, workarea_size, border_width) ==
    IF size > workarea_size - 2 * border_width - 2 * padding
    THEN workarea_size - 2 * border_width - 2 * padding
    ELSE size

\* lines 442-460: the id of the new notification and the counter afterwards
AssignId(cnt, replaces_id) ==
    IF replaces_id # Nil /\ replaces_id <= cnt
    THEN [id |-> replaces_id, counter |-> cnt]
    ELSE [id |-> cnt + 1, counter |-> cnt + 1]

(***************************************************************************)
(* Titles and texts.  The strings the model uses stand for the classes the *)
(* code tells apart: plain text, text with a <br>, text that is no valid   *)
(* markup until it is escaped, and bytes that are no valid UTF-8.          *)
(***************************************************************************)
BadUtf8 == "\\xff"

InvalidMessage == "<i>&lt;Invalid markup or UTF8, cannot display message&gt;</i>"

\* s:gsub("[<>&]", escape_subs)
Escape(s) ==
    CASE s = "a < b" -> "a &lt; b"
      [] s = "a < b\n" -> "a &lt; b\n"
      [] s = "a<br>b" -> "a&lt;br&gt;b"
      [] OTHER -> s

\* s:gsub("<br.->", "\n")
BrToNewline(s) == IF s = "a<br>b" THEN "a\nb" ELSE s

\* what Pango takes as markup, and what the textbox takes as text
ValidUtf8(s) == s \notin {BadUtf8, BadUtf8 \o "\n"}
ValidMarkup(s) == ValidUtf8(s) /\ s \notin {"a < b", "a < b\n", "a<br>b"}

\* lines 321-323: whether setMarkup, with the title already escaped and the
\* text after its gsub, raises an error (text is nil: text:gsub raises)
setMarkup_raises(escaped, text, subst) ==
    ~(text # NilS /\ ValidMarkup(escaped) /\ ValidMarkup(subst))

\* lines 324-326: whether setText raises an error
setText_raises(escaped, text, lua51) ==
    ~((text # NilS \/ ~lua51) /\ ValidUtf8(escaped) /\ ValidUtf8(text))

\* set_text with the two markup attempts in the other order
set_text_escape_first(title, text, lua51) ==
    LET escaped == Escape(title)
    IN  IF ~setMarkup_raises(escaped, text, Escape(text))
        THEN [call |-> "set_markup", title |-> escaped, text |-> Escape(text)]
        ELSE IF ~setMarkup_raises(escaped, text, BrToNewline(text))
        THEN [call |-> "set_markup", title |-> escaped,
              text |-> BrToNewline(text)]
        ELSE IF ~setText_raises(escaped, text, lua51)
        THEN [call |-> "set_text", title |-> escaped, text |-> text]
        ELSE [call |-> "set_markup", title |-> "", text |-> InvalidMessage]

\* set_text(notification, title, text): what the textbox shows afterwards.
\* text may be nil: text:gsub then raises an error inside both pcalls of
\* setMarkup, and string.format("%s", nil) raises one in Lua 5.1 (lua51)
\* and gives "nil" from Lua 5.2 on.
set_text(title, text, lua51) ==
    LET escaped == Escape(title)
    IN  IF ~setMarkup_raises(escaped, text, BrToNewline(text))
        THEN [call |-> "set_markup", title |-> escaped,
              text |-> BrToNewline(text)]
        ELSE IF ~setMarkup_raises(escaped, text, Escape(text))
        THEN [call |-> "set_markup", title |-> escaped, text |-> Escape(text)]
        ELSE IF ~setText_raises(escaped, text, lua51)
        THEN [call |-> "set_text", title |-> escaped, text |-> text]
        ELSE [call |-> "set_markup", title |-> "", text |-> InvalidMessage]

\* lines 349-351 and 464: the title handed to set_text
TitleLine(title) == IF title # NilS THEN title \o "\n" ELSE ""

\* naughty.replace_text(notification, new_title, new_text)
replace_text(n, new_title, new_text, lua51) ==
    [n EXCEPT !.shown = set_text(TitleLine(new_title), new_text, lua51)]

\* lines 415-416: the preset notify merges the arguments over
MergedPreset(args) ==
    table_join(defaults,
               IF args.preset # NilS THEN presets[args.preset] ELSE presets.normal)

\* lines 598-618: height and width before they are cropped
FullHeight(args) == args.height + args.actions_total_height
FullWidth(args) ==
    IF args.width < args.actions_max_width THEN args.actions_max_width
    ELSE args.width

\* the request of a notify call, as the caller made it
Request(args) == [k \in DOMAIN args \ {"replaces_id"} |-> args[k]]

\* lines 414-631 of naughty.notify: the notification object before it is
\* placed.  box_width and box_height are the size lines 636-637 give the
\* popup widget; args is the request the notification was made for;
\* orphans counts the started timers of the notification that
\* notification.timer no longer refers to.
notify_object(args, id, isSuspended) ==
    LET preset == MergedPreset(args)
        timeout == Or(args.timeout, preset.timeout)
        border_width == Or(args.border_width, preset.border_width)
        height == Crop(FullHeight(args), WaH, border_width)
        width == Crop(FullWidth(args), WaW, border_width)
        text == LuaOr(args.text, preset.text)
        title == LuaOr(args.title, preset.title)
        n0 == [id |-> id, position |-> LuaOr(args.position, preset.position),
               timeout |-> timeout,
               destroy_cb |-> args.destroy,
               hover_timeout |-> Or(args.hover_timeout, preset.hover_timeout),
               ontop |-> LuaOr(args.ontop, preset.ontop),
               border_width |-> border_width,
               timer |-> NoTimer, visible |-> FALSE,
               box_height |-> height, box_width |-> width,
               height |-> height + 2 * border_width,
               width |-> width + 2 * border_width,
               x2 |-> 0, y |-> 0, idx |-> 0, closed |-> <<>>, orphans |-> 0,
               shown |-> set_text(TitleLine(title), text, TRUE),
               args |-> Request(args)]
    IN  [n0 EXCEPT !.timer = set_timeout(n0, timeout, isSuspended, "notify")]

\* notify without lines 665-668: the popup is shown and not recorded as suspended
notify_insert_shown(g, n, o, cnt, old) ==
    IF g.w.err
    THEN [w |-> [g.w EXCEPT !.objs = Append(@, n)], counter |-> cnt,
          obj |-> Nil, old |-> old]
    ELSE [w |-> [g.w EXCEPT
                    !.objs = Append(@, [n EXCEPT !.x2 = g.v.x2, !.y = g.v.y,
                                                 !.idx = g.v.idx,
                                                 !.visible = TRUE]),
                    !.lists[n.position] = Append(@, o)],
          counter |-> cnt, obj |-> o, old |-> old]

\* lines 635-668 of naughty.notify: g is what get_offset returned for n
notify_insert(g, n, o, cnt, old) ==
    IF g.w.err
    THEN [w |-> [g.w EXCEPT !.objs = Append(@, n)], counter |-> cnt,
          obj |-> Nil, old |-> old]
    ELSE [w |-> [g.w EXCEPT
                    !.objs = Append(@, [n EXCEPT !.x2 = g.v.x2, !.y = g.v.y,
                                                 !.idx = g.v.idx,
                                                 !.visible = ~g.w.suspended]),
                    !.lists[n.position] = Append(@, o),
                    !.susp = IF g.w.suspended THEN Append(@, o) ELSE @],
          counter |-> cnt, obj |-> o, old |-> old]

\* lines 462-668 of naughty.notify, Wr the world after the replaced
\* notification was destroyed
notify_place(Wr, n, cnt, old) ==
    IF Wr.err THEN [w |-> Wr, counter |-> cnt, obj |-> Nil, old |-> old]
    ELSE notify_insert(
            get_offset(Wr, n.position, Len(Wr.lists[n.position]) + 1,
                       n.width, n.height),
            n, Len(Wr.objs) + 1, cnt, old)

\* lines 442-460 of naughty.notify, old what getById returned
notify_replace(W, cnt, args, old, ids) ==
    notify_place(IF old # Nil THEN destroy(W, old, silent).w ELSE W,
                 notify_object(args, ids.id, W.suspended),
                 IF old # Nil /\ destroy(W, old, silent).w.err THEN cnt
                 ELSE ids.counter,
                 old)

\* naughty.notify(args): [w, counter, obj, old]
notify(W, cnt, args) ==
    notify_replace(W, cnt, args,
                   IF args.replaces_id # Nil THEN getById(W, args.replaces_id)
                   ELSE Nil,
                   AssignId(cnt, args.replaces_id))

\* notify that goes on with the request the callback rejected
notify_unchecked(W, cnt, args, cb) ==
    notify(W, cnt, args) @@ [vetoed |-> cb = "reject"]

\* lines 408-412 and what follows: naughty.config.notify_callback is cb, a
\* callback that returns args ("accept") or nil ("reject"), or not set
notify_checked(W, cnt, args, cb) ==
    IF cb = "reject"
    THEN [w |-> W, counter |-> cnt, obj |-> Nil, old |-> Nil, vetoed |-> TRUE]
    ELSE notify(W, cnt, args) @@ [vetoed |-> FALSE]

\* resume that shows the popups and leaves their timers alone
RECURSIVE resume_shown_only(_, _, _)
resume_shown_only(o, susp, k) ==
    IF k > Len(susp) THEN o
    ELSE resume_shown_only([o EXCEPT ![susp[k]].visible = TRUE], susp, k + 1)

\* naughty.resume(): the heap after the loop over the suspended list
RECURSIVE resume_from(_, _, _)
resume_from(o, susp, k) ==
    IF k > Len(susp) THEN o
    ELSE resume_from(
            [o EXCEPT ![susp[k]].visible = TRUE,
                      ![susp[k]].timer = IF @.exists THEN TimerStart(@) ELSE @],
            susp, k + 1)

\* notification.timer = tm: a timer that is dropped while started runs on
SetTimer(n, tm) ==
    [n EXCEPT !.timer = tm,
              !.orphans = IF tm # n.timer /\ n.timer.started THEN @ + 1 ELSE @]

\* naughty.reset_timeout(notification, new_timeout): [n, err].  The local
\* `timeout` of line 302 reads a global that nothing sets, so it is nil.
reset_timeout(n, new_timeout, isSuspended) ==
    LET n1 == IF n.timer.exists THEN [n EXCEPT !.timer = TimerStop(@)] ELSE n
        timeout == Or(Nil, n1.timeout)
        n2 == [SetTimer(n1, set_timeout(n1, timeout, isSuspended, "reset"))
                  EXCEPT !.timeout = timeout]
    IN  IF n2.timer.exists
        THEN [n |-> [n2 EXCEPT !.timer = TimerStart(@)], err |-> FALSE]
        ELSE [n |-> n2, err |-> TRUE]

\* hover_destroy that leaves the running timer running
hover_timer_unstopped(n) ==
    SetTimer(n, TimerStart(TimerNew(n.hover_timeout, "hover")))

\* hover_destroy of notification o, hover_timeout not 0 (lines 482-485)
hover_timer(n) ==
    LET n1 == IF n.timer.exists THEN [n EXCEPT !.timer = TimerStop(@)] ELSE n
    IN  SetTimer(n1, TimerStart(TimerNew(n.hover_timeout, "hover")))

(***************************************************************************)
(* Actions: one per call the host or the user can make.                    *)
(***************************************************************************)
\* The requests the clients make:
\*  - a short one that leaves position, timeout, ontop and border width to
\*    the "low" preset and the defaults;
\*  - a tall one with an action row, with its own timeout over the
\*    "critical" preset, a hover timeout, and ontop = false;
\*  - one at the bottom of the screen with a wide action row, a wider
\*    border, timeout 0, hover timeout 0 and no destroy callback.
Requests ==
    {[position |-> NilS, height |-> 1, actions_total_height |-> 0,
      width |-> 6, actions_max_width |-> 0, border_width |-> Nil,
      timeout |-> Nil, preset |-> "low", hover_timeout |-> Nil,
      ontop |-> NilS, destroy |-> TRUE, title |-> NilS, text |-> "a<br>b"],
     [position |-> "top_right", height |-> 2, actions_total_height |-> 1,
      width |-> 6, actions_max_width |-> 0, border_width |-> Nil,
      timeout |-> 2, preset |-> "critical", hover_timeout |-> 1,
      ontop |-> "false", destroy |-> TRUE, title |-> "T", text |-> "a < b"],
     [position |-> "bottom_left", height |-> 3, actions_total_height |-> 0,
      width |-> 8, actions_max_width |-> 24, border_width |-> 2,
      timeout |-> 0, preset |-> NilS, hover_timeout |-> 0,
      ontop |-> "true", destroy |-> FALSE, title |-> "T", text |-> NilS]}

\* args.replaces_id: none, or the id of the first notification
ReplaceIds == {Nil, 2}

NewTimeouts == {1}

\* the titles and texts handed to replace_text
NewTitles == {NilS, "U"}
NewTexts == {NilS, "c"}

\* naughty.config.notify_callback at the time of a call
Callbacks == {NilS, "accept", "reject"}

NotifyArgs == {c @@ [replaces_id |-> r] : c \in Requests, r \in ReplaceIds}

\* The classes of titles and texts: none, plain, one that is no markup
\* until it is escaped, one with a <br>, bytes that are no UTF-8
Titles == {NilS, "T", "a < b", BadUtf8}
Texts == {NilS, "c", "a < b", "a<br>b", BadUtf8}

\* The arguments of notify that exercise set_text alone
TextArgs ==
    {[position |-> NilS, height |-> 1, actions_total_height |-> 0,
      width |-> 6, actions_max_width |-> 0, border_width |-> Nil,
      timeout |-> 0, preset |-> NilS, hover_timeout |-> Nil,
      ontop |-> NilS, destroy |-> FALSE, title |-> t, text |-> x,
      replaces_id |-> Nil] : t \in Titles, x \in Texts}

\* The popup sizes of the placement requests
PlaceWidths == {6, 9}
PlaceHeights == {2, 3}

\* The arguments of notify that exercise get_offset alone: every position,
\* an even and an odd width, two heights, no timeout, nothing replaced
PlaceArgs ==
    {[position |-> q, height |-> h, actions_total_height |-> 0,
      width |-> w, actions_max_width |-> 0, border_width |-> Nil,
      timeout |-> 0, preset |-> NilS, hover_timeout |-> Nil,
      ontop |-> NilS, destroy |-> FALSE, title |-> NilS, text |-> "c",
      replaces_id |-> Nil] :
        q \in PositionSet, w \in PlaceWidths, h \in PlaceHeights}

Handles == DOMAIN objs

\* last: the call, the notification it was made on (for notify, the one it
\* returned), its argument (for notify, the notification getById found; for
\* a notify the callback rejected, args.replaces_id; for resume, the
\* suspended list it went through), whether it returned a value, whether it
\* raised an error
Call(op, obj, arg, ret, err) ==
    [op |-> op, obj |-> obj, arg |-> arg, ret |-> ret, err |-> err]

Write(W) ==
    /\ objs' = W.objs
    /\ notifications' = W.lists
    /\ suspendedList' = W.susp

Notify(args, cb) ==
    /\ Len(objs) + timerCalls < MaxCalls
    /\ LET r == notify_checked(World, counter, args, cb)
       IN  /\ Write(r.w)
           /\ counter' = r.counter
           /\ last' = IF r.vetoed
                      THEN Call("notify_rejected", Nil, args.replaces_id,
                                FALSE, FALSE)
                      ELSE Call("notify", r.obj, r.old, r.obj # Nil, r.w.err)
    /\ UNCHANGED <<suspended, p, xkb, timerCalls>>

Destroy(o, reason) ==
    /\ o \in Handles
    /\ LET r == destroy(World, o, reason)
       IN  /\ Write(r.w)
           /\ last' = Call("destroy", o, reason, r.ret, r.w.err)
    /\ UNCHANGED <<counter, suspended, p, xkb, timerCalls>>

\* a click on the popup: die(dismissedByUser)
Dismiss(o) ==
    /\ o \in Handles
    /\ objs[o].visible
    /\ LET r == destroy(World, o, dismissedByUser)
       IN  /\ Write(r.w)
           /\ last' = Call("dismiss", o, dismissedByUser, r.ret, r.w.err)
    /\ UNCHANGED <<counter, suspended, p, xkb, timerCalls>>

\* one second passes on every started timer
Tick ==
    /\ \E o \in Handles : objs[o].timer.started
    /\ \A o \in Handles : objs[o].timer.started => objs[o].timer.left > 0
    /\ objs' = [o \in Handles |->
                  IF objs[o].timer.started
                  THEN [objs[o] EXCEPT !.timer.left = @ - 1]
                  ELSE objs[o]]
    /\ last' = Call("tick", Nil, Nil, FALSE, FALSE)
    /\ UNCHANGED <<counter, suspended, notifications, suspendedList, p, xkb, timerCalls>>

\* the timer of o emits "timeout": die(expired); a timer that is still
\* started afterwards runs again
Fire(o) ==
    /\ o \in Handles
    /\ objs[o].timer.started
    /\ objs[o].timer.left = 0
    /\ LET r == destroy(World, o, expired)
           tm == r.w.objs[o].timer
           again == IF tm.started
                    THEN [r.w EXCEPT !.objs[o].timer.left = tm.timeout]
                    ELSE r.w
       IN  /\ Write(again)
           /\ last' = Call("fire", o, expired, r.ret, r.w.err)
    /\ UNCHANGED <<counter, suspended, p, xkb, timerCalls>>

\* mouse::enter on the popup of o; line 596 connects hover_destroy when
\* hover_timeout is not nil
Hover(o) ==
    /\ o \in Handles
    /\ objs[o].visible
    /\ Len(objs) + timerCalls < MaxCalls
    /\ timerCalls' = timerCalls + 1
    /\ IF objs[o].hover_timeout = 0
       THEN LET r == destroy(World, o, expired)
            IN  /\ Write(r.w)
                /\ last' = Call("hover", o, expired, r.ret, r.w.err)
       ELSE /\ objs' = IF objs[o].hover_timeout = Nil THEN objs
                       ELSE [objs EXCEPT ![o] = hover_timer(@)]
            /\ last' = Call("hover", o, Nil, FALSE, FALSE)
            /\ UNCHANGED <<notifications, suspendedList, xkb>>
    /\ UNCHANGED <<counter, suspended, p, xkb>>

ResetTimeout(o, new_timeout) ==
    /\ o \in Handles
    /\ \E q \in PositionSet : o \in Range(notifications[q])
    /\ Len(objs) + timerCalls < MaxCalls
    /\ timerCalls' = timerCalls + 1
    /\ LET r == reset_timeout(objs[o], new_timeout, suspended)
       IN  /\ objs' = [objs EXCEPT ![o] = r.n]
           /\ last' = Call("reset_timeout", o, new_timeout, FALSE, r.err)
    /\ UNCHANGED <<counter, suspended, notifications, suspendedList, p, xkb>>

\* naughty.replace_text(o, new_title, new_text), under Lua 5.1 or later
ReplaceText(o, new_title, new_text, lua51) ==
    /\ o \in Handles
    /\ \E q \in PositionSet : o \in Range(notifications[q])
    /\ Len(objs) + timerCalls < MaxCalls
    /\ timerCalls' = timerCalls + 1
    /\ objs' = [objs EXCEPT ![o] = replace_text(@, new_title, new_text, lua51)]
    /\ last' = Call("replace_text", o, [title |-> new_title, text |-> new_text],
                    FALSE, FALSE)
    /\ UNCHANGED <<counter, suspended, notifications, suspendedList, p, xkb>>

Suspend ==
    /\ suspended' = TRUE
    /\ last' = Call("suspend", Nil, Nil, FALSE, FALSE)
    /\ UNCHANGED <<counter, notifications, suspendedList, objs, p, xkb, timerCalls>>

Resume ==
    /\ suspended' = FALSE
    /\ objs' = resume_from(objs, suspendedList, 1)
    /\ suspendedList' = <<>>
    /\ last' = Call("resume", Nil, suspendedList, FALSE, FALSE)
    /\ UNCHANGED <<counter, notifications, p, xkb, timerCalls>>

\* naughty.toggle() calls resume() or suspend()
Toggle ==
    /\ IF suspended
       THEN /\ suspended' = FALSE
            /\ objs' = resume_from(objs, suspendedList, 1)
            /\ suspendedList' = <<>>
            /\ last' = Call("resume", Nil, suspendedList, FALSE, FALSE)
       ELSE /\ suspended' = TRUE
            /\ last' = Call("suspend", Nil, Nil, FALSE, FALSE)
            /\ UNCHANGED <<objs, suspendedList, xkb>>
    /\ UNCHANGED <<counter, notifications, p, xkb, timerCalls>>

(***************************************************************************)
(* The keyboard layout bridge.  xkb is a record:                           *)
(*   status    "start" before xkb_init, then "ready", or "dead" once       *)
(*             fatal() has ended the process                               *)
(*   server    what the X server answered to xkb_init                      *)
(*   requests  the XKB requests xkb_init sent, in order                    *)
(*   fatal     the message fatal() was called with, or nil                 *)
(*   event     the event event_handle_xkb_notify was called with last      *)
(*   emitted   the signals it emitted for that event, in order             *)
(* The numbers are those of xcb/xkb.h.                                     *)
(***************************************************************************)
XCB_XKB_NEW_KEYBOARD_NOTIFY == 0
XCB_XKB_STATE_NOTIFY == 2
XCB_XKB_NAMES_NOTIFY == 6
XCB_XKB_NKN_DETAIL_KEYCODES == 1
XCB_XKB_STATE_PART_GROUP_STATE == 16

MaxXkbType == 7     \* event sub-types 0..MaxXkbType are delivered
MaxGroup == 3       \* keyboard groups are 0..MaxGroup

\* x & bit is not 0, for a mask of one bit
HasBit(x, bit) == (x \div bit) % 2 = 1

Signal(name, nargs, arg) == [name |-> name, nargs |-> nargs, arg |-> arg]

\* the handler with the test of the keycodes bit left out
event_handle_xkb_notify_any_keyboard(event) ==
    IF event.pad0 \in {XCB_XKB_NEW_KEYBOARD_NOTIFY, XCB_XKB_NAMES_NOTIFY}
    THEN <<Signal("xkb::map_changed", 0, Nil)>>
    ELSE IF event.pad0 = XCB_XKB_STATE_NOTIFY
            /\ HasBit(event.changed, XCB_XKB_STATE_PART_GROUP_STATE)
    THEN <<Signal("xkb::group_changed", 1, event.group)>>
    ELSE <<>>

\* event_handle_xkb_notify(event): the signals emitted, in order
event_handle_xkb_notify(event) ==
    CASE event.pad0 = XCB_XKB_NEW_KEYBOARD_NOTIFY ->
            IF HasBit(event.changed, XCB_XKB_NKN_DETAIL_KEYCODES)
            THEN <<Signal("xkb::map_changed", 0, Nil)>>
            ELSE <<>>
      [] event.pad0 = XCB_XKB_NAMES_NOTIFY ->
            <<Signal("xkb::map_changed", 0, Nil)>>
      [] event.pad0 = XCB_XKB_STATE_NOTIFY ->
            IF HasBit(event.changed, XCB_XKB_STATE_PART_GROUP_STATE)
            THEN <<Signal("xkb::group_changed", 1, event.group)>>
            ELSE <<>>
      [] OTHER -> <<>>

\* xkb_init that goes on when the version is not supported
xkb_init_lenient(x, ext, reply) ==
    IF ext # "present"
    THEN [x EXCEPT !.status = "dead", !.server = [ext |-> ext, reply |-> reply],
                   !.fatal = "Xkb extension not present"]
    ELSE [x EXCEPT !.status = "ready", !.server = [ext |-> ext, reply |-> reply],
                   !.requests = <<"use_extension", "select_events">>]

\* xkb_init(): ext is what xcb_get_extension_data returned (NULL, a reply
\* with present = 0, or one with present = 1), reply what
\* xcb_xkb_use_extension_reply returned (NULL, supported = 0, supported = 1)
xkb_init(x, ext, reply) ==
    IF ext # "present"
    THEN [x EXCEPT !.status = "dead", !.server = [ext |-> ext, reply |-> reply],
                   !.fatal = "Xkb extension not present"]
    ELSE IF reply # "supported"
    THEN [x EXCEPT !.status = "dead", !.server = [ext |-> ext, reply |-> reply],
                   !.requests = <<"use_extension">>,
                   !.fatal = "Required xkb extension is not supported"]
    ELSE [x EXCEPT !.status = "ready", !.server = [ext |-> ext, reply |-> reply],
                   !.requests = <<"use_extension", "select_events">>]

ExtensionData == {"null", "absent", "present"}
UseExtensionReplies == {"null", "unsupported", "supported"}

\* the `changed` masks of the events: no bit, the bits the handler tests,
\* other bits, and both
ChangedMasks == {0, 1, 2, 3, 16, 17, 32, 48}

XkbEvents == [pad0 : 0..MaxXkbType, changed : ChangedMasks, group : 0..MaxGroup]

NoEvent == [pad0 |-> Nil, changed |-> 0, group |-> 0]

XkbStart ==
    [status |-> "start", server |-> [ext |-> NilS, reply |-> NilS],
     requests |-> <<>>, fatal |-> NilS, event |-> NoEvent, emitted |-> <<>>]

\* the window manager starts: xkb_init()
XkbInit(ext, reply) ==
    /\ xkb.status = "start"
    /\ xkb' = xkb_init(xkb, ext, reply)
    /\ last' = Call("xkb_init", Nil, Nil, FALSE, FALSE)
    /\ UNCHANGED <<p, counter, suspended, notifications, suspendedList, objs,
                   timerCalls>>

\* the X connection delivers an XKB event to the running window manager
XkbNotify(event) ==
    /\ xkb.status = "ready"
    /\ xkb' = [xkb EXCEPT !.event = event,
                          !.emitted = event_handle_xkb_notify(event)]
    /\ last' = Call("xkb_notify", Nil, Nil, FALSE, FALSE)
    /\ UNCHANGED <<p, counter, suspended, notifications, suspendedList, objs,
                   timerCalls>>

(***************************************************************************)
(* Specifications.                                                         *)
(***************************************************************************)
InitNaughty ==
    /\ counter = 1
    /\ suspended = FALSE
    /\ notifications = [q \in PositionSet |-> <<>>]
    /\ suspendedList = <<>>
    /\ objs = <<>>
    /\ last = Call("init", Nil, Nil, FALSE, FALSE)
    /\ timerCalls = 0

Init ==
    /\ InitNaughty
    /\ xkb = XkbStart
    /\ p = [workarea |-> [x |-> 0, y |-> 0, width |-> 5, height |-> 1],
            clients |-> <<>>, geometries |-> EmptyTable]

Next ==
    \/ \E args \in NotifyArgs, cb \in Callbacks : Notify(args, cb)
    \/ \E o \in Handles, reason \in {Nil, silent} : Destroy(o, reason)
    \/ \E o \in Handles : Dismiss(o)
    \/ Tick
    \/ \E o \in Handles : Fire(o)
    \/ \E o \in Handles : Hover(o)
    \/ \E o \in Handles, t \in NewTimeouts : ResetTimeout(o, t)
    \/ \E o \in Handles, new_title \in NewTitles, new_text \in NewTexts,
          lua51 \in BOOLEAN : ReplaceText(o, new_title, new_text, lua51)
    \/ Suspend
    \/ Resume
    \/ Toggle

Spec == Init /\ [][Next]_vars

\* Titles and texts alone: notifications and replace_text over every class
\* of title and text, never suspended
NextText ==
    \/ \E args \in TextArgs : Notify(args, NilS)
    \/ \E o \in Handles, new_title \in Titles, new_text \in Texts,
          lua51 \in BOOLEAN : ReplaceText(o, new_title, new_text, lua51)

SpecText == Init /\ [][NextText]_vars

\* Placement alone: notifications at every position, never suspended
NextPlace ==
    \/ \E args \in PlaceArgs : Notify(args, NilS)
    \/ \E o \in Handles : Destroy(o, Nil)

SpecPlace == Init /\ [][NextPlace]_vars

InitLayout ==
    /\ InitNaughty
    /\ xkb = XkbStart
    /\ p \in LayoutParams

NextLayout == Arrange

SpecLayout == InitLayout /\ [][NextLayout]_vars

NextXkb ==
    \/ \E ext \in ExtensionData, reply \in UseExtensionReplies : XkbInit(ext, reply)
    \/ \E event \in XkbEvents : XkbNotify(event)

SpecXkb == Init /\ [][NextXkb]_vars


(***************************************************************************)
(* Properties of the stacking layout (checked under SpecLayout).           *)
(***************************************************************************)
\* h is the least integer with h * n >= a, that is ceil(a / n)
IsCeil(h, a, n) == h * n >= a /\ (h - 1) * n < a

\* C1: after arrange, with N >= 1 clients the client at 0-based index k has
\* x = work-area x, width = work-area width, height = ceil(H/N) and
\* y = work-area y + k * ceil(H/N); with N = 0 no geometry is written.
C1_StackGeometry ==
    last.op = "arrange" =>
        LET wa == p.workarea
            N == Len(p.clients)
        IN  IF N = 0
            THEN p.geometries = EmptyTable
            ELSE /\ DOMAIN p.geometries = Range(p.clients)
                 /\ \A i \in 1..N :
                      LET g == p.geometries[p.clients[i]]
                      IN  /\ g.x = wa.x
                          /\ g.width = wa.width
                          /\ IsCeil(g.height, wa.height, N)
                          /\ g.y = wa.y + (i - 1) * g.height

\* three clients arranged in a work area whose height is no multiple of 3,
\* with an origin that is not 0
C1_Witness ==
    /\ last.op = "arrange"
    /\ Len(p.clients) = 3
    /\ p.workarea.height % 3 # 0
    /\ p.workarea.x # 0
    /\ p.workarea.y # 0
    /\ p.geometries[p.clients[3]].y = p.workarea.y + 2 * p.geometries[p.clients[1]].height

\* how far the bottom edge of the last rectangle lies below the bottom edge
\* of the work area
LastRowExcess ==
    LET g == p.geometries[p.clients[Len(p.clients)]]
    IN  (g.y + g.height) - (p.workarea.y + p.workarea.height)

\* C22 as stated: after arrange with N >= 1 clients the bottom edge of the
\* last rectangle is at least the bottom edge of the work area and exceeds
\* it by at most one unit.
C22_BottomEdgeWithinOne ==
    (last.op = "arrange" /\ Len(p.clients) >= 1) =>
        (LastRowExcess >= 0 /\ LastRowExcess <= 1)

\* C22, amended: after arrange with N >= 1 clients the bottom edge of the
\* last rectangle is at least the bottom edge of the work area and exceeds
\* it by at most N - 1 units (each row is less than one unit higher than
\* H / N).
C22_BottomEdgeWithinRows ==
    (last.op = "arrange" /\ Len(p.clients) >= 1) =>
        (LastRowExcess >= 0 /\ LastRowExcess <= Len(p.clients) - 1)

\* four clients arranged in a work area of height 5: rows of height 2, the
\* last one ends 3 units below the work area
C22_Witness ==
    /\ last.op = "arrange"
    /\ Len(p.clients) = 4
    /\ p.workarea.height = 5
    /\ LastRowExcess = 3


(***************************************************************************)
(* Properties of the notification popup manager (checked under Spec).      *)
(***************************************************************************)
InList(ls, o) == \E q \in PositionSet : o \in Range(ls[q])

\* the step was a call of naughty.destroy on l.obj, made by the host
\* (naughty.destroy itself, a click, a timer, a hover with hover_timeout 0)
DestroyCalled(l) ==
    \/ l.op \in {"destroy", "dismiss", "fire"}
    \/ l.op = "hover" /\ l.arg = expired

\* C2: notify with replaces_id equal to the id of a notification held in a
\* position list destroys that notification silently (it leaves its list, its
\* widget is hidden, its destroy callback is not called) and the new
\* notification has the same id, suspended or not.
C2_ReplaceSilently ==
    [][(last'.op = "notify" /\ last'.arg # Nil) =>
          /\ ~InList(notifications', last'.arg)
          /\ ~objs'[last'.arg].visible
          /\ objs'[last'.arg].closed = objs[last'.arg].closed
          /\ last'.obj # Nil
          /\ objs'[last'.obj].id = objs[last'.arg].id]_vars

\* C3: no two notifications held in the position lists have the same id, the
\* counter never decreases, and an id given without replaces_id is larger
\* than every id given before.
UniqueIds ==
    \A q1, q2 \in PositionSet :
        \A i \in DOMAIN notifications[q1], j \in DOMAIN notifications[q2] :
            objs[notifications[q1][i]].id = objs[notifications[q2][j]].id
                => (q1 = q2 /\ i = j)

C3_UniqueMonotonicIds ==
    [][/\ UniqueIds'
       /\ counter' >= counter
       /\ (last'.op = "notify" /\ last'.arg = Nil /\ last'.obj # Nil
              /\ counter' # counter) =>
            \A o \in DOMAIN objs : objs[o].id < objs'[last'.obj].id]_vars

\* C4: every notification stored at index i of a position list has idx = i.
C4_IdxIsIndex ==
    \A q \in PositionSet : \A i \in DOMAIN notifications[q] :
        objs[notifications[q][i]].idx = i

\* toward the anchor edge of position q by d
Toward(q, y, d) == IF IsTop(q) THEN y - d ELSE y + d

\* C5: destroying the visible notification at index i of a position list
\* leaves the siblings at lower indexes where they were and moves the
\* siblings at higher indexes toward the anchor edge by the destroyed
\* notification's height + spacing, their order unchanged.
C5_DestroyShiftsSiblings ==
    [][\A q \in PositionSet : \A i \in DOMAIN notifications[q] :
          (/\ DestroyCalled(last')
           /\ last'.obj = notifications[q][i]
           /\ objs[notifications[q][i]].visible) =>
              /\ notifications'[q] = TableRemove(notifications[q], i)
              /\ \A j \in DOMAIN notifications[q] :
                   LET s == notifications[q][j]
                   IN  /\ j < i => objs'[s].y = objs[s].y
                       /\ j > i => objs'[s].y =
                            Toward(q, objs[s].y,
                                   objs[notifications[q][i]].height + spacing)]_vars

\* C6: destroy on a visible notification removes it from its list, stops its
\* timer, hides its widget and re-arranges the siblings before the destroy
\* callback is called; the callback is called exactly once, with the reason
\* given (undefined = 4 without a reason), unless the reason is silent, and
\* then it is not called.
C6_DestroyThenCallback ==
    [][(DestroyCalled(last') /\ objs[last'.obj].visible) =>
          LET o == last'.obj
              reason == last'.arg
          IN  /\ ~InList(notifications', o)
              /\ ~objs'[o].timer.started
              /\ ~objs'[o].visible
              /\ IF objs[o].destroy_cb /\ reason # silent
                 THEN objs'[o].closed = Append(objs[o].closed,
                        [reason |-> IF reason = Nil THEN undefined ELSE reason,
                         inList |-> FALSE, inSusp |-> FALSE, visible |-> FALSE,
                         timerStarted |-> FALSE, arranged |-> TRUE])
                 ELSE objs'[o].closed = objs[o].closed]_vars

\* C7: destroying a notification that is in the suspended list removes it
\* from its position list and from the suspended list, stops its timer and
\* returns true.
C7_DestroySuspended ==
    [][(last'.op = "destroy" /\ last'.obj \in Range(suspendedList)) =>
          /\ last'.ret
          /\ last'.obj \notin Range(suspendedList')
          /\ ~InList(notifications', last'.obj)
          /\ ~objs'[last'.obj].timer.started]_vars


\* the timer that notify installed for o (set_timeout called from notify)
CreationTimer(os, o) == os[o].timer.exists /\ os[o].timer.origin = "notify"

C9_SuspendFrame ==
    [][/\ last'.op = "suspend" =>
            /\ suspended'
            /\ objs' = objs
            /\ notifications' = notifications
            /\ suspendedList' = suspendedList
            /\ counter' = counter
       /\ (last'.op = "notify" /\ suspended /\ last'.obj # Nil) =>
            /\ ~objs'[last'.obj].visible
            /\ ~objs'[last'.obj].timer.started
            /\ last'.obj \in Range(notifications'[objs'[last'.obj].position])
            /\ last'.obj \in Range(suspendedList')]_vars

\* a notification with a timer was just created while suspended, beside a
\* visible one whose timer runs
C9_Witness ==
    /\ last.op = "notify"
    /\ suspended
    /\ last.obj # Nil
    /\ last.obj \in Range(suspendedList)
    /\ objs[last.obj].timer.exists
    /\ ~objs[last.obj].timer.started
    /\ \E o \in DOMAIN objs :
          /\ objs[o].visible
          /\ objs[o].timer.started
          /\ InList(notifications, o)

\* C10: after resume() the suspended flag is false, the suspended list is
\* empty, every notification that was in the suspended list is visible and,
\* if it has a timer, the timer runs; the other notifications, the position
\* lists and the counter are as before.
C10_ResumeShowsSuspended ==
    [][last'.op = "resume" =>
          /\ ~suspended'
          /\ suspendedList' = <<>>
          /\ \A o \in Range(suspendedList) :
                /\ objs'[o].visible
                /\ objs[o].timer.exists => objs'[o].timer.started
          /\ \A o \in DOMAIN objs \ Range(suspendedList) : objs'[o] = objs[o]
          /\ DOMAIN objs' = DOMAIN objs
          /\ notifications' = notifications
          /\ counter' = counter]_vars

\* resume has just shown a suspended notification with a timer, beside a
\* notification that was not suspended
C10_Witness ==
    /\ last.op = "resume"
    /\ ~suspended
    /\ \E o \in Range(last.arg) :
          /\ objs[o].visible
          /\ objs[o].timer.started
    /\ \E o \in DOMAIN objs :
          /\ o \notin Range(last.arg)
          /\ objs[o].visible

\* the larger of two numbers
Max(a, b) == IF a < b THEN b ELSE a

\* C11: for every notify call, a width (the larger of the content or caller
\* width and the widest action row) or a height (content or caller height
\* plus the action rows) above work-area size - 2*border_width - 2*padding
\* gives a popup widget of exactly that bound, any other size stays as
\* computed, and notification.width/height are the widget size plus
\* 2*border_width.
C11_CropToWorkArea ==
    [][(last'.op = "notify" /\ last'.obj # Nil) =>
          LET n == objs'[last'.obj]
              w == Max(n.args.width, n.args.actions_max_width)
              h == n.args.height + n.args.actions_total_height
              boundW == WaW - 2 * n.border_width - 2 * padding
              boundH == WaH - 2 * n.border_width - 2 * padding
          IN  /\ n.box_width = IF w > boundW THEN boundW ELSE w
              /\ n.box_height = IF h > boundH THEN boundH ELSE h
              /\ n.width = n.box_width + 2 * n.border_width
              /\ n.height = n.box_height + 2 * n.border_width]_vars

\* notify has just cropped a popup in both directions, its width because of
\* an action row, beside a notification that was not cropped
C11_Witness ==
    /\ last.op = "notify"
    /\ last.obj # Nil
    /\ LET n == objs[last.obj]
       IN  /\ n.box_width = WaW - 2 * n.border_width - 2 * padding
           /\ n.box_width < n.args.actions_max_width
           /\ n.args.width < n.box_width
           /\ n.box_height < n.args.height
    /\ \E o \in DOMAIN objs :
          /\ InList(notifications, o)
          /\ objs[o].box_width = objs[o].args.width
          /\ objs[o].box_height = objs[o].args.height

\* C12: when naughty.config.notify_callback returns nil for a request, notify
\* returns nothing and changes nothing: the counter, the position lists, the
\* suspended list and every notification with its timer are as before, a
\* notification named by replaces_id included.
C12_RejectedChangesNothing ==
    [][last'.op = "notify_rejected" =>
          /\ ~last'.ret
          /\ ~last'.err
          /\ counter' = counter
          /\ notifications' = notifications
          /\ suspendedList' = suspendedList
          /\ suspended' = suspended
          /\ objs' = objs]_vars

\* the callback has just rejected a request whose replaces_id names a
\* visible notification, which is still in its list with its timer running
C12_Witness ==
    /\ last.op = "notify_rejected"
    /\ last.arg # Nil
    /\ \E o \in DOMAIN objs :
          /\ objs[o].id = last.arg
          /\ InList(notifications, o)
          /\ objs[o].visible
          /\ objs[o].timer.started

\* the caller's value if the caller gave one (absent is the value `none`),
\* else the preset's, else the default
Effective(given, none, preset, default) ==
    IF given # none THEN given
    ELSE IF preset # none THEN preset
    ELSE default

\* C13: the value notify uses for timeout, ontop, border_width, position and
\* hover_timeout is the caller's if the caller gave the field (ontop = false
\* and timeout = 0 included), else the value of the caller's preset (of the
\* "normal" preset when none is named), else the global default.
C13_CallerOverPresetOverDefault ==
    [][(last'.op = "notify" /\ last'.obj # Nil) =>
          LET n == objs'[last'.obj]
              a == n.args
              pr == IF a.preset # NilS THEN presets[a.preset] ELSE presets.normal
          IN  /\ n.timeout = Effective(a.timeout, Nil, pr.timeout, default_timeout)
              /\ n.ontop = Effective(a.ontop, NilS, NilS, default_ontop)
              /\ n.border_width =
                    Effective(a.border_width, Nil, Nil, default_border_width)
              /\ n.position = Effective(a.position, NilS, NilS, default_position)
              /\ n.hover_timeout = Effective(a.hover_timeout, Nil, Nil, Nil)]_vars

\* C14: reset_timeout(notification, new_timeout) on a notification held in a
\* position list raises no error (a notification created with timeout 0
\* included) and leaves notification.timeout = new_timeout and a started
\* timer that runs for new_timeout seconds.
C14_ResetTimeout ==
    [][last'.op = "reset_timeout" =>
          LET n == objs'[last'.obj]
          IN  /\ ~last'.err
              /\ n.timeout = last'.arg
              /\ n.timer.exists
              /\ n.timer.started
              /\ n.timer.timeout = last'.arg
              /\ n.timer.left = last'.arg]_vars

\* C15: replace_text(notification, new_title, new_text) leaves the shown
\* title as it was when new_title is nil and the shown text as it was when
\* new_text is nil, and shows the parts that were given.
C15_ReplaceTextKeepsUnspecified ==
    [][last'.op = "replace_text" =>
          LET old == objs[last'.obj].shown
              new == objs'[last'.obj].shown
              a == last'.arg
          IN  /\ a.title = NilS => new.title = old.title
              /\ a.text = NilS => new.text = old.text
              /\ a.title # NilS => new.title = a.title \o "\n"
              /\ a.text # NilS => new.text = a.text]_vars

\* C16: a notification made with timeout 0 has no timer from notify, and it
\* leaves its list only when it is destroyed itself (naughty.destroy, a
\* click, a hover timeout) or when a notify call replaces or evicts it; when
\* the timer notify installed for a notification fires, that notification
\* is destroyed with reason expired: its popup is hidden, its timer stopped
\* and its destroy callback, if any, called once with expired.
C16_NoExpiryWithoutTimeout ==
    [][/\ \A o \in DOMAIN objs' :
            objs'[o].timeout = 0 => ~CreationTimer(objs', o)
       /\ \A o \in DOMAIN objs :
            (/\ objs[o].timeout = 0
             /\ InList(notifications, o)
             /\ ~InList(notifications', o)) =>
                \/ last'.op = "notify"
                \/ /\ DestroyCalled(last')
                   /\ last'.obj = o
                   /\ last'.op = "fire" => objs[o].timer.origin = "hover"
       /\ \A o \in DOMAIN objs :
            (last'.op = "fire" /\ last'.obj = o /\ CreationTimer(objs, o)) =>
                /\ last'.ret
                /\ ~objs'[o].visible
                /\ ~objs'[o].timer.started
                /\ IF objs[o].destroy_cb
                   THEN /\ Len(objs'[o].closed) = Len(objs[o].closed) + 1
                        /\ objs'[o].closed[Len(objs'[o].closed)].reason = expired
                   ELSE objs'[o].closed = objs[o].closed]_vars

\* C17: a mouse-enter on the popup of a notification with hover_timeout > 0
\* leaves it with one timer, started, that runs for hover_timeout seconds,
\* and with no other timer running; with hover_timeout 0 the notification
\* is destroyed at once with reason expired (popup hidden, timer stopped,
\* destroy callback called with expired); without a hover_timeout nothing
\* changes.
C17_HoverRestartsTimer ==
    [][last'.op = "hover" =>
          LET o == last'.obj
              n == objs[o]
              m == objs'[o]
          IN  /\ \A x \in DOMAIN objs : x # o /\ n.hover_timeout # 0 =>
                    objs'[x] = objs[x]
              /\ m.orphans = 0
              /\ IF n.hover_timeout = Nil
                 THEN /\ m = n
                      /\ notifications' = notifications
                      /\ suspendedList' = suspendedList
                 ELSE IF n.hover_timeout = 0
                 THEN /\ last'.ret
                      /\ ~m.visible
                      /\ ~m.timer.started
                      /\ IF n.destroy_cb
                         THEN /\ Len(m.closed) = Len(n.closed) + 1
                              /\ m.closed[Len(m.closed)].reason = expired
                         ELSE m.closed = n.closed
                 ELSE /\ m.timer.started
                      /\ m.timer.timeout = n.hover_timeout
                      /\ m.timer.left = n.hover_timeout
                      /\ m.visible
                      /\ notifications' = notifications
                      /\ suspendedList' = suspendedList]_vars

\* a mouse-enter has just replaced the expiry timer of 2 seconds of a
\* notification by a started timer that runs for its hover timeout of 1
C17_Witness ==
    /\ last.op = "hover"
    /\ last.arg = Nil
    /\ LET n == objs[last.obj]
       IN  /\ n.hover_timeout = 1
           /\ n.timeout = 2
           /\ n.timer.started
           /\ n.timer.origin = "hover"
           /\ n.timer.left = 1
           /\ n.orphans = 0

\* a popup of height h at position q lies inside the work area when the
\* notifications of the sequence s are stacked before it
FitsAfter(os, q, s, h) ==
    LET y == IF IsTop(q) THEN WaY + padding + Existing(os, s, Len(s))
             ELSE WaY + WaH - (padding + h + Existing(os, s, Len(s)))
    IN  y >= WaY /\ y + h <= WaY + WaH

\* C20: when notify places a new notification (no replacement), the k oldest
\* notifications of its list are destroyed and removed, k being the least
\* number for which the new one lies inside the work area behind the
\* others; these keep their order and the new one is appended after them;
\* the other lists are untouched.  Suspended or not.
C20_EvictOldestFirst ==
    [][(last'.op = "notify" /\ last'.obj # Nil /\ last'.arg = Nil) =>
          LET new == last'.obj
              q == objs'[new].position
              h == objs'[new].height
              before == notifications[q]
              after == notifications'[q]
              k == Len(before) + 1 - Len(after)
              Rest(j) == SubSeq(before, j + 1, Len(before))
          IN  /\ k \in 0..Len(before)
              /\ after = Rest(k) \o <<new>>
              /\ \A i \in 1..k :
                    /\ ~objs'[before[i]].visible
                    /\ ~objs'[before[i]].timer.started
              /\ FitsAfter(objs, q, Rest(k), h)
              /\ k > 0 => ~FitsAfter(objs, q, Rest(k - 1), h)
              /\ \A q2 \in PositionSet \ {q} :
                    notifications'[q2] = notifications[q2]]_vars

\* the calls that reach get_offset: notify, and naughty.destroy through
\* arrange
ReachesGetOffset(l) == l.op = "notify" \/ DestroyCalled(l)

\* every call that reaches get_offset ends without a Lua error (a recursion
\* without end is a stack overflow)
GetOffsetEnds == ReachesGetOffset(last) => ~last.err

\* C21: every call of get_offset ends, with visible or suspended entries in
\* the list, because each recursive step shortens the list by one: a notify
\* call (no replacement) that made s recursive steps, s = #list + 1 - idx
\* (lines 182 and 209), leaves a list that is s entries shorter before the
\* new notification is appended.
C21_GetOffsetShortensList ==
    [][/\ GetOffsetEnds'
       /\ (last'.op = "notify" /\ last'.obj # Nil /\ last'.arg = Nil) =>
            LET new == last'.obj
                q == objs'[new].position
                steps == Len(notifications[q]) + 1 - objs'[new].idx
            IN  Len(notifications'[q]) = Len(notifications[q]) - steps + 1]_vars

\* C23: every visible popup of a position list is placed horizontally at
\* work-area x + padding when the position contains "left", centred in the
\* work area (x = work-area x + (work-area width - w) / 2) when it contains
\* "middle", and at work-area x + work-area width - w - padding otherwise;
\* vertically at padding plus the sum of (height + spacing) of the
\* notifications at lower indices, measured from the top edge for "top"
\* positions and from the bottom edge for "bottom" positions.  (x2 is twice x.)
C23_Placement ==
    \A q \in PositionSet : \A i \in DOMAIN notifications[q] :
        LET n == objs[notifications[q][i]]
            below == Existing(objs, notifications[q], i - 1)
        IN  n.visible =>
              /\ n.x2 = (IF IsLeft(q) THEN 2 * (WaX + padding)
                         ELSE IF IsMiddle(q)
                              THEN 2 * WaX + (WaW - n.width)
                              ELSE 2 * (WaX + WaW - n.width - padding))
              /\ IF IsTop(q)
                 THEN n.y = WaY + padding + below
                 ELSE n.y + n.height = WaY + WaH - (padding + below)

\* o has been destroyed: its popup is hidden and it does not wait for resume
Destroyed(o) == ~objs[o].visible /\ o \notin Range(suspendedList)

\* C25: destroy is idempotent and the destroy callback of a notification is
\* called at most once over its whole life: a call of destroy on a
\* notification that is already destroyed returns nil, removes nothing from
\* any list, moves no sibling and calls no callback; and destroy returns
\* true exactly when it removed the notification from its list.
C25_DestroyIdempotent ==
    [][/\ \A o \in DOMAIN objs' : Len(objs'[o].closed) <= 1
       /\ DestroyCalled(last') =>
            LET o == last'.obj
            IN  /\ Destroyed(o) =>
                      /\ ~last'.ret
                      /\ notifications' = notifications
                      /\ suspendedList' = suspendedList
                      /\ \A s \in DOMAIN objs :
                            /\ objs'[s].y = objs[s].y
                            /\ objs'[s].idx = objs[s].idx
                            /\ objs'[s].closed = objs[s].closed
                /\ last'.ret <=> (/\ InList(notifications, o)
                                  /\ ~InList(notifications', o))]_vars

\* C26: a popup is visible only if its notification is in the list of its
\* position (no visible popup without an entry, no destroyed notification
\* left in a list); a notification in a position list is invisible only if
\* it is in the suspended list as well; and the suspended list is not empty
\* only while the suspended flag is set.
C26_ListsAndVisibility ==
    /\ \A o \in DOMAIN objs :
          objs[o].visible => o \in Range(notifications[objs[o].position])
    /\ \A q \in PositionSet : \A o \in Range(notifications[q]) :
          ~objs[o].visible => o \in Range(suspendedList)
    /\ suspendedList # <<>> => suspended

\* C27: every visible popup lies vertically inside the work area, and no two
\* visible popups of the same position overlap vertically, popups made
\* while suspended and shown by resume included.
C27_InsideAndDisjoint ==
    /\ \A o \in DOMAIN objs :
          objs[o].visible =>
            /\ objs[o].y >= WaY
            /\ objs[o].y + objs[o].height <= WaY + WaH
    /\ \A o1, o2 \in DOMAIN objs :
          (/\ o1 # o2
           /\ objs[o1].visible /\ objs[o2].visible
           /\ objs[o1].position = objs[o2].position) =>
             \/ objs[o1].y + objs[o1].height <= objs[o2].y
             \/ objs[o2].y + objs[o2].height <= objs[o1].y

\* what each rendering tier shows for a title and a text, in the order of
\* the claim: markup with <br> as line break, markup with the text escaped,
\* plain text, the fixed message
Tier(k, title, text) ==
    CASE k = 1 -> [call |-> "set_markup", title |-> Escape(title),
                   text |-> BrToNewline(text)]
      [] k = 2 -> [call |-> "set_markup", title |-> Escape(title),
                   text |-> Escape(text)]
      [] k = 3 -> [call |-> "set_text", title |-> Escape(title), text |-> text]
      [] OTHER -> [call |-> "set_markup", title |-> "", text |-> InvalidMessage]

\* whether tier k succeeds: the widget takes what the tier hands it
TierSucceeds(k, title, text, lua51) ==
    CASE k = 1 -> ~setMarkup_raises(Escape(title), text, BrToNewline(text))
      [] k = 2 -> ~setMarkup_raises(Escape(title), text, Escape(text))
      [] k = 3 -> ~setText_raises(Escape(title), text, lua51)
      [] OTHER -> TRUE

\* shown is what the first tier that succeeds shows
FirstTierShown(shown, title, text) ==
    \E lua51 \in BOOLEAN : \E k \in 1..4 :
        /\ TierSucceeds(k, title, text, lua51)
        /\ \A j \in 1..(k - 1) : ~TierSucceeds(j, title, text, lua51)
        /\ shown = Tier(k, title, text)

\* C24: set_text tries the tiers in order (markup with only <br> turned into
\* line breaks, markup with the text escaped, plain text, the fixed message)
\* and shows what the first tier that succeeds shows; for every title and
\* every text, a missing text included, the call returns without an error;
\* and whatever tier shows the title shows it escaped.
C24_SetTextTiers ==
    [][/\ (last'.op = "notify" /\ last'.obj # Nil) =>
            LET n == objs'[last'.obj]
            IN  /\ ~last'.err
                /\ FirstTierShown(n.shown, TitleLine(n.args.title),
                                  LuaOr(n.args.text, default_text))
       /\ last'.op = "replace_text" =>
            LET n == objs'[last'.obj]
            IN  /\ ~last'.err
                /\ FirstTierShown(n.shown, TitleLine(last'.arg.title),
                                  last'.arg.text)
                /\ n.shown.title \in {"", Escape(TitleLine(last'.arg.title))}]_vars

\* replace_text(n, "a < b", "a < b"): the first tier failed on the text, the
\* second shows the text escaped under the escaped title
C24_Witness ==
    /\ last.op = "replace_text"
    /\ last.arg = [title |-> "a < b", text |-> "a < b"]
    /\ objs[last.obj].shown =
         [call |-> "set_markup", title |-> "a &lt; b\n", text |-> "a &lt; b"]

(***************************************************************************)
(* Properties of the keyboard layout bridge (checked under SpecXkb).       *)
(***************************************************************************)
\* C18: for the event the handler was called with, the signals emitted are
\* exactly one xkb::map_changed without argument for new-keyboard-notify
\* with the keycodes bit in `changed` or for names-notify, exactly one
\* xkb::group_changed with the event's group for state-notify with the
\* group-state bit in `changed`, and none in every other case.
C18_XkbSignals ==
    xkb.event # NoEvent =>
        LET e == xkb.event
            keycodes == e.changed % 2 = 1
            group_state == (e.changed \div 16) % 2 = 1
        IN  xkb.emitted =
                IF (e.pad0 = 0 /\ keycodes) \/ e.pad0 = 6
                THEN <<[name |-> "xkb::map_changed", nargs |-> 0, arg |-> Nil]>>
                ELSE IF e.pad0 = 2 /\ group_state
                THEN <<[name |-> "xkb::group_changed", nargs |-> 1,
                        arg |-> e.group]>>
                ELSE <<>>

\* the handler has just emitted xkb::group_changed with group 2 for a
\* state-notify whose mask has the group-state bit and the keycodes bit
C18_Witness ==
    /\ xkb.event.pad0 = XCB_XKB_STATE_NOTIFY
    /\ xkb.event.changed = 17
    /\ xkb.event.group = 2
    /\ Len(xkb.emitted) = 1
    /\ xkb.emitted[1].name = "xkb::group_changed"
    /\ xkb.emitted[1].arg = 2

\* C19: after xkb_init the process is dead with a fatal message unless the
\* extension is present and the use-extension reply is there and says
\* supported; the select-events request is sent only then, after the
\* use-extension request, and the process runs on only then.
C19_XkbInitFatal ==
    xkb.status # "start" =>
        LET ok == xkb.server.ext = "present" /\ xkb.server.reply = "supported"
        IN  /\ xkb.status = IF ok THEN "ready" ELSE "dead"
            /\ ok <=> xkb.fatal = NilS
            /\ xkb.requests =
                  IF ok THEN <<"use_extension", "select_events">>
                  ELSE IF xkb.server.ext = "present" THEN <<"use_extension">>
                  ELSE <<>>

\* xkb_init has ended the process because the extension is present but the
\* reply says the version is not supported
C19_Witness ==
    /\ xkb.status = "dead"
    /\ xkb.server.ext = "present"
    /\ xkb.server.reply = "unsupported"
    /\ xkb.fatal = "Required xkb extension is not supported"
    /\ xkb.requests = <<"use_extension">>

====
